---- MODULE Spec2Model ----
(***************************************************************************)
(* Verification model of the cricket chatbot's query core: the cache-aside *)
(* layer (CricketDataCache), the routers, the concurrent fan-out and the   *)
(* fusion step.                                                            *)
(***************************************************************************)
EXTENDS Integers, Sequences, FiniteSets, TLC

(* ------------------------------------------------------------------ *)
(* Bounds of the model                                                  *)
(* ------------------------------------------------------------------ *)
NumCallers == 2
MaxTime == 30
MaxFetches == 2
TickStep == 10

(* ------------------------------------------------------------------ *)
(* Cache layer: CricketDataCache                                        *)
(* ------------------------------------------------------------------ *)
VARIABLES now, redis, callers, fetches, failures, firstExpire

cacheVars == <<now, redis, callers, fetches, failures, firstExpire>>

Callers == 1..NumCallers

\* cache_key = f"{data_type}:{match_id}": the key carries its data type
Keys == {"live_scores:m1", "live_commentary:m1"}

KeyDataType(k) == IF k = "live_scores:m1" THEN "live_scores" ELSE "live_commentary"

None == [none |-> TRUE]

\* ttl_map.get(data_type, 3600), in seconds
get_cache_ttl(data_type) ==
    CASE data_type = "live_scores" -> 30
      [] data_type = "live_commentary" -> 10
      [] data_type = "weather" -> 600
      [] data_type = "player_stats" -> 3600
      [] data_type = "historical_data" -> 86400
      [] data_type = "predictions" -> 300
      [] OTHER -> 3600

\* the payload produced by the n-th execution of fetch_func for key k
Payload(k, n) == [key |-> k, fetch |-> n]

\* json.dumps / json.loads on a payload (a dict with string keys)
json_dumps(v) == <<"json", v.key, v.fetch>>
json_loads(s) == [key |-> s[2], fetch |-> s[3]]

\* a store whose keys never expire
RedisGet_NoExpiry(store, k, t) ==
    IF store[k] # None THEN store[k].data ELSE None

\* redis_client.get(key) at time t: a key written by setex is gone once its
\* ttl has run out
RedisGet(store, k, t) ==
    IF store[k] # None /\ t < store[k].setAt + store[k].ttl THEN store[k].data ELSE None

\* redis_client.setex(key, ttl, data) at time t
RedisSetex(store, k, ttl, data, t) ==
    [store EXCEPT ![k] = [data |-> data, setAt |-> t, ttl |-> ttl]]

\* the entry seen at call time had outlived its ttl at time t0 and is still
\* inside the grace window (twice its ttl) at time t
InGrace(seen, age, t0, t) ==
    /\ seen # None
    /\ age >= seen.ttl
    /\ (t - t0) + age < 2 * seen.ttl

\* seen: the entry under the key when the call was made (expired or not);
\* age: its age when the call returned a cached value or raised, its age at the
\* call while the fetch runs; since: the time fetch_func was started
\* executions of fetch_func started so far, over all keys
TotalFetches == fetches["live_scores:m1"] + fetches["live_commentary:m1"]

IdleCaller ==
    [pc |-> "idle", key |-> "live_scores:m1", fetch |-> 0, result |-> None,
     kind |-> "none", seen |-> None, age |-> 0, since |-> 0, inGrace |-> FALSE]

CacheInit ==
    /\ now = 0
    /\ redis = [k \in Keys |-> None]
    /\ callers = [c \in Callers |-> IdleCaller]
    /\ fetches = [k \in Keys |-> 0]
    /\ failures = [k \in Keys |-> 0]
    /\ firstExpire = [k \in Keys |-> 0]

\* get_or_fetch up to its await: the cache lookup, and on a miss the start of
\* fetch_func()
GetOrFetchCall(c, k) ==
    /\ callers[c].pc # "fetching"
    /\ LET cached == RedisGet(redis, k, now)
           entryAge == IF redis[k] = None THEN 0 ELSE now - redis[k].setAt
       IN IF cached # None
          THEN /\ callers' = [callers EXCEPT ![c] =
                      [pc |-> "done", key |-> k, fetch |-> 0,
                       result |-> json_loads(cached), kind |-> "hit",
                       seen |-> redis[k], age |-> entryAge, since |-> 0,
                       inGrace |-> FALSE]]
               /\ UNCHANGED fetches
          ELSE /\ TotalFetches < MaxFetches
               /\ fetches' = [fetches EXCEPT ![k] = @ + 1]
               /\ callers' = [callers EXCEPT ![c] =
                      [pc |-> "fetching", key |-> k, fetch |-> fetches[k] + 1,
                       result |-> None, kind |-> "none",
                       seen |-> redis[k], age |-> entryAge, since |-> now,
                       inGrace |-> FALSE]]
    /\ UNCHANGED <<now, redis, failures, firstExpire>>

\* fetch_func() returns: setex with the ttl of the data type, return fresh_data
FetchSucceed(c) ==
    /\ callers[c].pc = "fetching"
    /\ LET k == callers[c].key
           fresh_data == Payload(k, callers[c].fetch)
           ttl == get_cache_ttl(KeyDataType(k))
       IN /\ redis' = RedisSetex(redis, k, ttl, json_dumps(fresh_data), now)
          /\ firstExpire' = IF firstExpire[k] = 0
                            THEN [firstExpire EXCEPT ![k] = now + ttl]
                            ELSE firstExpire
          /\ callers' = [callers EXCEPT ![c].pc = "done", ![c].result = fresh_data,
                                        ![c].kind = "fetched", ![c].since = 0]
    /\ UNCHANGED <<now, fetches, failures>>

\* a get_or_fetch that answers a failed fetch with whatever entry it saw
FetchFail_ServeAnyStale(c) ==
    /\ callers[c].pc = "fetching"
    /\ failures' = [failures EXCEPT ![callers[c].key] = @ + 1]
    /\ callers' = [callers EXCEPT
          ![c].pc = IF callers[c].seen = None THEN "raised" ELSE "done",
          ![c].kind = IF callers[c].seen = None THEN "raised" ELSE "stale",
          ![c].result = IF callers[c].seen = None THEN None
                        ELSE json_loads(callers[c].seen.data),
          ![c].since = 0,
          ![c].age = IF callers[c].seen = None THEN 0 ELSE @ + (now - callers[c].since)]
    /\ UNCHANGED <<now, redis, fetches, firstExpire>>

\* fetch_func() raises: the exception leaves get_or_fetch, nothing is written
FetchFail(c) ==
    /\ callers[c].pc = "fetching"
    /\ failures' = [failures EXCEPT ![callers[c].key] = @ + 1]
    /\ callers' = [callers EXCEPT
          ![c].pc = "raised", ![c].kind = "raised", ![c].since = 0,
          ![c].age = IF callers[c].seen = None THEN 0 ELSE @ + (now - callers[c].since),
          ![c].inGrace = InGrace(callers[c].seen, callers[c].age, callers[c].since, now)]
    /\ UNCHANGED <<now, redis, fetches, firstExpire>>

\* callers whose current call met a failing cache backend
VARIABLES backendFailed

backendVars == <<backendFailed>>

BackendInit == backendFailed = {}

\* cached = await self.redis_client.get(key) raises: the exception leaves
\* get_or_fetch before fetch_func is called
RedisGetRaises(c, k) ==
    /\ callers[c].pc # "fetching"
    /\ callers' = [callers EXCEPT ![c] =
           [pc |-> "raised", key |-> k, fetch |-> 0, result |-> None,
            kind |-> "backend_error", seen |-> None, age |-> 0, since |-> 0,
            inGrace |-> FALSE]]
    /\ backendFailed' = backendFailed \cup {c}
    /\ UNCHANGED <<now, redis, fetches, failures, firstExpire>>

\* fetch_func() returned and redis_client.setex raises: the exception leaves
\* get_or_fetch before return fresh_data
RedisSetexRaises(c) ==
    /\ callers[c].pc = "fetching"
    /\ callers' = [callers EXCEPT ![c].pc = "raised", ![c].kind = "backend_error",
                                  ![c].since = 0]
    /\ backendFailed' = backendFailed \cup {c}
    /\ UNCHANGED <<now, redis, fetches, failures, firstExpire>>

Tick ==
    /\ now < MaxTime
    /\ now' = now + TickStep
    /\ UNCHANGED <<redis, callers, fetches, failures, firstExpire>>

(* ------------------------------------------------------------------ *)
(* Routers: CricketChatbotRouter and EnhancedCricketRouter              *)
(* ------------------------------------------------------------------ *)
VARIABLES query, nlu, chatbotRoute, enhancedRoute

routerVars == <<query, nlu, chatbotRoute, enhancedRoute>>

\* the intents of the classification, and the intent names the routers test
ClassifierIntents ==
    {"factual", "opinion", "live", "historical", "ball-level", "comparison",
     "sentiment", "visualization", "prediction", "hybrid"}

RouterIntents ==
    {"scores", "commentary", "conditions", "stats", "records", "career", "prediction"}

Intents == ClassifierIntents \cup RouterIntents

Temporals == {"live", "recent", "historical", "unspecified"}

Complexities == 1..3

\* phrases a lower-cased query text may contain
QueryPhrases == {"ball-by-ball", "compare", "score"}

\* a user query: the phrases of its text and what the classifier extracts
Queries ==
    [intent : Intents, temporal : Temporals, complexity : Complexities,
     phrases : SUBSET QueryPhrases]

NotRouted == <<"not routed">>

is_live_request(q) == q.temporal = "live"

is_historical(q) == q.temporal = "historical"

requires_multiple_sources(q) == q.intent = "hybrid" \/ q.complexity = 3

ball_indicators ==
    {"specific delivery", "ball-by-ball", "yorkers", "bouncers",
     "specific over", "delivery analysis", "bowling patterns"}

requires_ball_level_data(q) == \E indicator \in ball_indicators : indicator \in q.phrases

comparison_words == {"vs", "compare", "better than", "difference between"}

is_comparison_query(q) == \E word \in comparison_words : word \in q.phrases

requires_sentiment_analysis(q) == q.intent = "sentiment"

requires_visualization(q) == q.intent = "visualization"

requires_live_data(q) == q.temporal = "live"

requires_historical_context(q) == q.temporal = "historical"

\* tools_to_use.append(tool) when the condition holds
AppendIf(cond, tools, more) == IF cond THEN tools \o more ELSE tools

\* a comparison rule that brings the historical tool with it
EnhancedCricketRouter_route_query_ComparisonAddsHistorical(q) ==
    LET t0 == <<>>
        t1 == AppendIf(requires_ball_level_data(q), t0, <<"ball_database_tool">>)
        t2 == AppendIf(is_comparison_query(q), t1,
                       <<"player_comparison_tool", "historical_stats_tool">>)
        t3 == AppendIf(requires_sentiment_analysis(q), t2, <<"social_sentiment_tool">>)
        t4 == AppendIf(requires_visualization(q), t3, <<"visualization_tool">>)
        t5 == AppendIf(requires_live_data(q), t4,
                       <<"live_score_tool", "commentary_scraper_tool">>)
        t6 == AppendIf(requires_historical_context(q), t5, <<"historical_stats_tool">>)
    IN t6

EnhancedCricketRouter_route_query(q) ==
    LET t0 == <<>>
        t1 == AppendIf(requires_ball_level_data(q), t0, <<"ball_database_tool">>)
        t2 == AppendIf(is_comparison_query(q), t1, <<"player_comparison_tool">>)
        t3 == AppendIf(requires_sentiment_analysis(q), t2, <<"social_sentiment_tool">>)
        t4 == AppendIf(requires_visualization(q), t3, <<"visualization_tool">>)
        t5 == AppendIf(requires_live_data(q), t4,
                       <<"live_score_tool", "commentary_scraper_tool">>)
        t6 == AppendIf(requires_historical_context(q), t5, <<"historical_stats_tool">>)
    IN t6

\* the union of the tools matched on every axis, the historical tool when
\* none is
orchestrate_multi_tool_response(q) ==
    IF EnhancedCricketRouter_route_query(q) = <<>>
    THEN <<"historical_stats_tool">>
    ELSE EnhancedCricketRouter_route_query(q)

\* a decision matrix that has lost its scores branch
CricketChatbotRouter_route_query_NoScoresBranch(q) ==
    IF is_live_request(q) /\ q.intent = "commentary" THEN <<"commentary_scraper_tool">>
    ELSE IF is_live_request(q) /\ q.intent = "conditions" THEN <<"weather_tool">>
    ELSE IF ~is_live_request(q) /\ is_historical(q)
              /\ q.intent \in {"stats", "records", "career"}
         THEN <<"historical_stats_tool">>
    ELSE IF ~is_live_request(q) /\ ~is_historical(q) /\ q.intent = "prediction"
         THEN <<"prediction_tool">>
    ELSE IF requires_multiple_sources(q) THEN orchestrate_multi_tool_response(q)
    ELSE <<"historical_stats_tool">>

\* the if / elif chain of the decision matrix: a branch whose inner test
\* fails falls through to the hybrid test and the default
CricketChatbotRouter_route_query(q) ==
    IF is_live_request(q) /\ q.intent = "scores" THEN <<"live_score_tool">>
    ELSE IF is_live_request(q) /\ q.intent = "commentary"
         THEN <<"commentary_scraper_tool">>
    ELSE IF is_live_request(q) /\ q.intent = "conditions" THEN <<"weather_tool">>
    ELSE IF ~is_live_request(q) /\ is_historical(q)
              /\ q.intent \in {"stats", "records", "career"}
         THEN <<"historical_stats_tool">>
    ELSE IF ~is_live_request(q) /\ ~is_historical(q) /\ q.intent = "prediction"
         THEN <<"prediction_tool">>
    ELSE IF requires_multiple_sources(q) THEN orchestrate_multi_tool_response(q)
    ELSE <<"historical_stats_tool">>

\* classify_intent raised: the exception leaves route_query
ClassificationError == <<"ClassificationError">>

RouterInit ==
    /\ query \in Queries
    /\ nlu \in {"up", "down"}
    /\ chatbotRoute = NotRouted
    /\ enhancedRoute = NotRouted

RouterIdle ==
    /\ query = [intent |-> "factual", temporal |-> "unspecified", complexity |-> 1,
                phrases |-> {}]
    /\ nlu = "up"
    /\ chatbotRoute = NotRouted
    /\ enhancedRoute = NotRouted

ChatbotRoute ==
    /\ chatbotRoute = NotRouted
    /\ chatbotRoute' = IF nlu = "down" THEN ClassificationError
                       ELSE CricketChatbotRouter_route_query(query)
    /\ UNCHANGED <<query, nlu, enhancedRoute>>

EnhancedRoute ==
    /\ enhancedRoute = NotRouted
    /\ enhancedRoute' = IF nlu = "down" THEN ClassificationError
                        ELSE EnhancedCricketRouter_route_query(query)
    /\ UNCHANGED <<query, nlu, chatbotRoute>>

(* ------------------------------------------------------------------ *)
(* Orchestrator: concurrent fan-out over the selected tools             *)
(* ------------------------------------------------------------------ *)
VARIABLES selected, fate, payloads, task, clock, orchPc, fused

orchVars == <<selected, fate, payloads, task, clock, orchPc, fused>>

\* longest tool list handed to execute
MaxSelected == 2

OrchTools == {"live_score_tool", "historical_stats_tool", "player_comparison_tool"}

\* per-tool timeout by ttl class (seconds): realtime tools 3, the others 10
RealtimeTimeout == 3
HistoricalTimeout == 10

\* global ceiling of one execute (seconds)
CeilingTimeout == 15

ToolTimeoutOf(t) == IF t = "live_score_tool" THEN RealtimeTimeout ELSE HistoricalTimeout

\* what one attempt of a tool's fetch does by itself: its result and how long
\* it takes; a second entry is what a retry would do
Ok(d) == [res |-> "ok", dur |-> d]
Cached == [res |-> "cached", dur |-> 0]
Transient(d) == [res |-> "transient", dur |-> d]
Invalid(d) == [res |-> "validation", dur |-> d]

Fates ==
    { <<Ok(1)>>, <<Ok(8)>>, <<Ok(12)>>, <<Cached>>, <<Invalid(1)>>,
      <<Transient(1), Ok(1)>>, <<Transient(1), Transient(1)>>,
      <<Transient(8), Ok(8)>>, <<Transient(1), Invalid(1)>>,
      <<Invalid(1), Ok(1)>> }

Range(seq) == {seq[i] : i \in 1..Len(seq)}

\* tool lists without repetition, in priority order
ToolLists ==
    {l \in UNION {[1..n -> OrchTools] : n \in 1..MaxSelected} :
        \A i, j \in 1..Len(l) : i # j => l[i] # l[j]}

NoFate == <<Cached>>

\* rank: the position of the task in the order of completion
IdleTask ==
    [status |-> "idle", attempt |-> 1, started |-> 0, outcome |-> "none", rank |-> 0]

NotFused == [fused |-> FALSE]

FusionError == [error |-> "FusionError: no data available"]

\* the fragments a tool's payload yields: (entity, metric) key, declared
\* confidence (in tenths) and freshness timestamp
Frag(t, k, c, f) == [tool |-> t, key |-> k, confidence |-> c, freshness |-> f]

DefaultFragments(t) ==
    CASE t = "live_score_tool" ->
             <<Frag(t, "india-australia:score", 9, 3)>>
      [] t = "historical_stats_tool" ->
             <<Frag(t, "kohli:odi-average", 6, 1), Frag(t, "rohit:odi-average", 6, 1)>>
      [] OTHER ->
             <<Frag(t, "kohli:odi-average", 9, 2), Frag(t, "rohit:odi-average", 6, 2)>>

\* the payloads a tool may return: one fragment, or one fragment for each of
\* two keys
FragmentKeys == {"kohli:odi-average", "rohit:odi-average"}
Confidences == {6, 9}
Timestamps == {1, 2}

PayloadChoices(t) ==
    {<<Frag(t, k, c, f)>> : k \in FragmentKeys, c \in Confidences, f \in Timestamps}
    \cup {<<Frag(t, "kohli:odi-average", c, f), Frag(t, "rohit:odi-average", d, f)>> :
              c \in Confidences, d \in Confidences, f \in Timestamps}

\* the fragments extracted from the payload of tool t
ToolFragments(t) == payloads[t]

OrchInit ==
    /\ selected \in ToolLists
    /\ fate \in [OrchTools -> Fates]
    /\ \A t \in OrchTools : t \notin Range(selected) => fate[t] = NoFate
    /\ payloads = [t \in OrchTools |-> DefaultFragments(t)]
    /\ task = [t \in OrchTools |-> IdleTask]
    /\ clock = 0
    /\ orchPc = "init"
    /\ fused = NotFused

OrchIdle ==
    /\ selected = <<"historical_stats_tool">>
    /\ fate = [t \in OrchTools |-> NoFate]
    /\ payloads = [t \in OrchTools |-> DefaultFragments(t)]
    /\ task = [t \in OrchTools |-> IdleTask]
    /\ clock = 0
    /\ orchPc = "init"
    /\ fused = NotFused

\* the results handed to fusion directly: every selected tool has ended, with
\* a usable payload or a failure
FuseInit ==
    /\ selected \in ToolLists
    /\ fate = [t \in OrchTools |-> NoFate]
    /\ payloads \in [OrchTools ->
           UNION {PayloadChoices(t) \cup {DefaultFragments(t)} : t \in OrchTools}]
    /\ \A t \in OrchTools :
           IF t \in Range(selected) THEN payloads[t] \in PayloadChoices(t)
           ELSE payloads[t] = DefaultFragments(t)
    /\ task \in [OrchTools -> {IdleTask,
                               [IdleTask EXCEPT !.status = "done", !.outcome = "success"],
                               [IdleTask EXCEPT !.status = "done", !.outcome = "failure"]}]
    /\ \A t \in OrchTools : (task[t] = IdleTask) <=> (t \notin Range(selected))
    /\ clock = 0
    /\ orchPc = "returned"
    /\ fused = NotFused

Running(t) == task[t].status = "running"

DoneCount(tasks) == Cardinality({u \in OrchTools : tasks[u].status = "done"})

CurrentAttempt(t) == fate[t][task[t].attempt]

\* the time at which the running attempt of t comes back by itself
DueAt(t) == task[t].started + CurrentAttempt(t).dur

\* the time at which the per-tool timeout of the running attempt of t fires
TimeoutAt(t) == task[t].started + ToolTimeoutOf(t)

\* tasks = [...]; asyncio.gather(*tasks, ...): every selected tool's call is
\* started, all at once
Execute ==
    /\ orchPc = "init"
    /\ orchPc' = "running"
    /\ task' = [t \in OrchTools |->
                   IF t \in Range(selected)
                   THEN [IdleTask EXCEPT !.status = "running", !.started = clock]
                   ELSE task[t]]
    /\ UNCHANGED <<selected, fate, payloads, clock, fused>>

\* a gather that lets the first exception cancel the tasks still running
GatherCapture_CancelSiblings(tasks, t, outcome) ==
    [u \in OrchTools |->
        IF u = t THEN [tasks[u] EXCEPT !.status = "done", !.outcome = outcome,
                                       !.rank = DoneCount(tasks) + 1]
        ELSE IF outcome \in {"failure", "timeout"} /\ tasks[u].status = "running"
             THEN [tasks[u] EXCEPT !.status = "done", !.outcome = "cancelled",
                                   !.rank = DoneCount(tasks) + 1]
             ELSE tasks[u]]

\* gather(..., return_exceptions=True): the result or the exception of task t
\* becomes its entry of the result list; no other task is touched
GatherCapture(tasks, t, outcome) ==
    [tasks EXCEPT ![t].status = "done", ![t].outcome = outcome,
                  ![t].rank = DoneCount(tasks) + 1]

\* an orchestrator that retries after any failed attempt, validation errors
\* included
AttemptReturns_RetryAnyFailure(t) ==
    /\ orchPc = "running"
    /\ Running(t)
    /\ clock = DueAt(t)
    /\ CurrentAttempt(t).dur < ToolTimeoutOf(t)
    /\ clock < CeilingTimeout
    /\ LET res == CurrentAttempt(t).res
       IN CASE res = "ok" -> task' = GatherCapture(task, t, "success")
            [] res = "cached" -> task' = GatherCapture(task, t, "cache_hit")
            [] OTHER ->
                 IF task[t].attempt = 1 /\ Len(fate[t]) > 1
                 THEN task' = [task EXCEPT ![t].attempt = 2, ![t].started = clock]
                 ELSE task' = GatherCapture(task, t, "timeout")
    /\ UNCHANGED <<selected, fate, payloads, clock, orchPc, fused>>

\* the running attempt of t comes back before its timeout and the ceiling
AttemptReturns(t) ==
    /\ orchPc = "running"
    /\ Running(t)
    /\ clock = DueAt(t)
    /\ CurrentAttempt(t).dur < ToolTimeoutOf(t)
    /\ clock < CeilingTimeout
    /\ LET res == CurrentAttempt(t).res
       IN CASE res = "ok" -> task' = GatherCapture(task, t, "success")
            [] res = "cached" -> task' = GatherCapture(task, t, "cache_hit")
            [] res = "validation" /\ task[t].attempt = 1 ->
                 \* a validation error is never retried
                 task' = GatherCapture(task, t, "failure")
            [] res = "transient" /\ task[t].attempt = 1 ->
                 \* transient failure: one retry
                 task' = [task EXCEPT ![t].attempt = 2, ![t].started = clock]
            [] OTHER ->
                 \* the retry failed too: treated as a timeout
                 task' = GatherCapture(task, t, "timeout")
    /\ UNCHANGED <<selected, fate, payloads, clock, orchPc, fused>>

\* the per-tool timeout of the running attempt fires first
ToolTimesOut(t) ==
    /\ orchPc = "running"
    /\ Running(t)
    /\ clock = TimeoutAt(t)
    /\ CurrentAttempt(t).dur >= ToolTimeoutOf(t)
    /\ clock < CeilingTimeout
    /\ task' = GatherCapture(task, t, "timeout")
    /\ UNCHANGED <<selected, fate, payloads, clock, orchPc, fused>>

\* an orchestrator without the global ceiling
CeilingFires_Never ==
    /\ FALSE
    /\ UNCHANGED <<selected, fate, payloads, task, clock, orchPc, fused>>

\* the global ceiling fires: every tool still pending is marked timeout
CeilingFires ==
    /\ orchPc = "running"
    /\ clock = CeilingTimeout
    /\ \E t \in OrchTools : Running(t)
    /\ task' = [t \in OrchTools |->
                   IF Running(t)
                   THEN [task[t] EXCEPT !.status = "done", !.outcome = "timeout",
                                        !.rank = DoneCount(task) + 1]
                   ELSE task[t]]
    /\ UNCHANGED <<selected, fate, payloads, clock, orchPc, fused>>

\* the next instant at which a running attempt returns, a timeout fires or
\* the ceiling is reached
EventTimes ==
    {CeilingTimeout} \cup
    {IF CurrentAttempt(t).dur < ToolTimeoutOf(t) THEN DueAt(t) ELSE TimeoutAt(t) :
        t \in {u \in OrchTools : Running(u)}}

Min(S) == CHOOSE x \in S : \A y \in S : x <= y

TimePasses ==
    /\ orchPc = "running"
    /\ \E t \in OrchTools : Running(t)
    /\ clock < Min(EventTimes)
    /\ clock' = Min(EventTimes)
    /\ UNCHANGED <<selected, fate, payloads, task, orchPc, fused>>

AllDone == \A t \in Range(selected) : task[t].status = "done"

\* results = await asyncio.gather(...): every task has its entry
GatherReturns ==
    /\ orchPc = "running"
    /\ AllDone
    /\ orchPc' = "returned"
    /\ UNCHANGED <<selected, fate, payloads, task, clock, fused>>

(* ------------------------------------------------------------------ *)
(* Fusion of the executions of one run                                  *)
(* ------------------------------------------------------------------ *)
Usable(outcome) == outcome \in {"success", "cache_hit"}

\* position of a selected tool in the tool list
Pos(t) == CHOOSE i \in 1..Len(selected) : selected[i] = t

FinishedBefore(a, b) ==
    \/ task[a].rank < task[b].rank
    \/ task[a].rank = task[b].rank /\ Pos(a) < Pos(b)

CompletionOrder ==
    CHOOSE s \in [1..Len(selected) -> Range(selected)] :
        \A i, j \in 1..Len(selected) : i < j => FinishedBefore(s[i], s[j])

\* results collected as the tasks complete
Executions_AsCompleted ==
    [i \in 1..Len(selected) |->
        [tool |-> CompletionOrder[i], outcome |-> task[CompletionOrder[i]].outcome]]

\* the executions in tool-priority order: gather returns the results in the
\* order of the tasks it was given
Executions == [i \in 1..Len(selected) |->
                  [tool |-> selected[i], outcome |-> task[selected[i]].outcome]]

RECURSIVE Flatten(_)
Flatten(seqs) == IF seqs = <<>> THEN <<>> ELSE Head(seqs) \o Flatten(Tail(seqs))

\* an extraction that keeps the fragments of every execution
ExtractFragments_All(execs) ==
    Flatten([i \in 1..Len(execs) |-> ToolFragments(execs[i].tool)])

\* fragments of the usable executions, in input order
ExtractFragments(execs) ==
    Flatten([i \in 1..Len(execs) |->
                IF Usable(execs[i].outcome) THEN ToolFragments(execs[i].tool) ELSE <<>>])

\* a beats b: the more recent one, whatever the confidence
Beats_FreshestFirst(a, b) ==
    \/ a.freshness > b.freshness
    \/ a.freshness = b.freshness /\ a.confidence > b.confidence

\* a beats b: higher confidence, then more recent freshness
Beats(a, b) ==
    \/ a.confidence > b.confidence
    \/ a.confidence = b.confidence /\ a.freshness > b.freshness

\* fragment i survives: no fragment of its key beats it, and no earlier one ties
Survives(frags, i) ==
    \A j \in 1..Len(frags) :
        (j # i /\ frags[j].key = frags[i].key)
            => /\ ~Beats(frags[j], frags[i])
               /\ j < i => Beats(frags[i], frags[j])

RECURSIVE KeepSurvivors(_, _)
KeepSurvivors(frags, i) ==
    IF i > Len(frags) THEN <<>>
    ELSE IF Survives(frags, i) THEN <<frags[i]>> \o KeepSurvivors(frags, i + 1)
    ELSE KeepSurvivors(frags, i + 1)

Deduplicate(frags) == KeepSurvivors(frags, 1)

\* a fusion that gives up as soon as one execution is unusable
fuse_AllOrNothing(execs) ==
    IF \E i \in 1..Len(execs) : ~Usable(execs[i].outcome)
    THEN FusionError
    ELSE [fragments |-> Deduplicate(ExtractFragments(execs)), degraded |-> FALSE]

\* a fusion that reports a failure but not a timeout
fuse_DegradedOnFailureOnly(execs) ==
    IF \A i \in 1..Len(execs) : ~Usable(execs[i].outcome)
    THEN FusionError
    ELSE [fragments |-> Deduplicate(ExtractFragments(execs)),
          degraded |-> \E i \in 1..Len(execs) : execs[i].outcome = "failure"]

fuse(execs) ==
    IF \A i \in 1..Len(execs) : ~Usable(execs[i].outcome)
    THEN FusionError
    ELSE [fragments |-> Deduplicate(ExtractFragments(execs)),
          degraded |-> \E i \in 1..Len(execs) : ~Usable(execs[i].outcome)]

\* cleaned_data = self.fuse_and_validate(results)
FuseResults ==
    /\ orchPc = "returned"
    /\ orchPc' = "fused"
    /\ fused' = fuse(Executions)
    /\ UNCHANGED <<selected, fate, payloads, task, clock>>

(* ------------------------------------------------------------------ *)
(* Tool registry: descriptors by name                                   *)
(* ------------------------------------------------------------------ *)
VARIABLES registry, calls, registryBefore

registryVars == <<registry, calls, registryBefore>>

\* longest sequence of registry calls
MaxCalls == 4

TtlClasses == {"realtime", "long"}

ToolDescriptors == [name : OrchTools, ttlClass : TtlClasses]

NotFound == [notFound |-> TRUE]

\* a register that adds the descriptor next to the one of the same name
register_KeepBoth(reg, d) == reg \cup {d}

\* register(ToolDescriptor): the descriptor replaces the one of its name
register(reg, d) == {e \in reg : e.name # d.name} \cup {d}

\* resolve(name) -> ToolDescriptor or NotFound
resolve(reg, n) ==
    IF \E e \in reg : e.name = n THEN CHOOSE e \in reg : e.name = n ELSE NotFound

RegistryInit ==
    /\ registry = {}
    /\ calls = <<>>
    /\ registryBefore = {}

Register(d) ==
    /\ Len(calls) < MaxCalls
    /\ registryBefore' = registry
    /\ registry' = register(registry, d)
    /\ calls' = Append(calls, [op |-> "register", name |-> d.name, descriptor |-> d])

Resolve(n) ==
    /\ Len(calls) < MaxCalls
    /\ calls' = Append(calls, [op |-> "resolve", name |-> n,
                                descriptor |-> resolve(registry, n)])
    /\ UNCHANGED <<registry, registryBefore>>

(* ------------------------------------------------------------------ *)
(* MatchQueryService: searchMatches and getMockMatches                  *)
(* ------------------------------------------------------------------ *)
VARIABLES svcQuery, svcResponse, svcResult, mockResult

serviceVars == <<svcQuery, svcResponse, svcResult, mockResult>>

\* longest queryText text, in words
MaxWords == 4

\* a text is a sequence of words; a keyword of getMockMatches is one word
Words ==
    {" ", "ashes", "Ashes", "2023", "india", "australia", "AUSTRALIA", "ipl", "final",
     "test"}

Texts == UNION {[1..n -> Words] : n \in 0..MaxWords}

\* String.prototype.toLowerCase, word by word
LowerWord(w) ==
    CASE w = "Ashes" -> "ashes"
      [] w = "AUSTRALIA" -> "australia"
      [] OTHER -> w

toLowerCase(text) == [i \in 1..Len(text) |-> LowerWord(text[i])]

\* String.prototype.includes, for a keyword
includes(text, keyword) == \E i \in 1..Len(text) : text[i] = keyword

\* String.prototype.trim: white space removed at both ends
RECURSIVE trimStart(_)
trimStart(text) ==
    IF text # <<>> /\ Head(text) = " " THEN trimStart(Tail(text)) ELSE text

RECURSIVE trimEnd(_)
trimEnd(text) ==
    IF text # <<>> /\ text[Len(text)] = " "
    THEN trimEnd(SubSeq(text, 1, Len(text) - 1))
    ELSE text

trim(text) == trimEnd(trimStart(text))

Match(series, number) == [series_name |-> series, match_number |-> number]

mockMatches ==
    <<Match("The Ashes (Australia in England), 2023", "5th"),
      Match("The Ashes (Australia in England), 2023", "4th"),
      Match("The Ashes (Australia in England), 2023", "3rd")>>

BorderGavaskarMatch ==
    <<Match("Border-Gavaskar Trophy (India in Australia), 1999/00", "2nd")>>

IplFinalMatch == <<Match("Indian Premier League 2023", "final")>>

\* a filter that looks for the keywords in the queryText as typed
getMockMatches_CaseSensitive(queryText) ==
    IF includes(queryText, "ashes") /\ includes(queryText, "2023") THEN mockMatches
    ELSE IF includes(queryText, "india") /\ includes(queryText, "australia")
         THEN BorderGavaskarMatch
    ELSE IF includes(queryText, "ipl") /\ includes(queryText, "final") THEN IplFinalMatch
    ELSE <<>>

getMockMatches(queryText) ==
    LET queryLower == toLowerCase(queryText)
    IN IF includes(queryLower, "ashes") /\ includes(queryLower, "2023") THEN mockMatches
       ELSE IF includes(queryLower, "india") /\ includes(queryLower, "australia")
            THEN BorderGavaskarMatch
       ELSE IF includes(queryLower, "ipl") /\ includes(queryLower, "final")
            THEN IplFinalMatch
       ELSE <<>>

\* JSON values of a response body
Undefined == [js |-> "undefined"]
JsonNull == [js |-> "null"]
JsonArray(items) == [js |-> "array", items |-> items]
JsonObject(matches) == [js |-> "object", matches |-> matches]

\* matches found by the backend
ServerMatches == <<Match("ICC World Cup 2023", "final")>>

\* what fetch and response.json() can produce: a rejected fetch, a status that
\* is not ok, a body that is not JSON, and the JSON bodies null, {},
\* {matches: null}, {matches: []} and {matches: [...]}
Responses ==
    {[fetch |-> "rejected"],
     [fetch |-> "resolved", ok |-> FALSE],
     [fetch |-> "resolved", ok |-> TRUE, body |-> [js |-> "syntax error"]],
     [fetch |-> "resolved", ok |-> TRUE, body |-> JsonNull],
     [fetch |-> "resolved", ok |-> TRUE, body |-> JsonObject(Undefined)],
     [fetch |-> "resolved", ok |-> TRUE, body |-> JsonObject(JsonNull)],
     [fetch |-> "resolved", ok |-> TRUE, body |-> JsonObject(JsonArray(<<>>))],
     [fetch |-> "resolved", ok |-> TRUE, body |-> JsonObject(JsonArray(ServerMatches))]}

Resolved(value) == [promise |-> "resolved", value |-> value]
Rejected == [promise |-> "rejected"]

\* the statements of the try block throw
Throws(response) ==
    \/ response.fetch = "rejected"
    \/ ~response.ok
    \/ response.body.js = "syntax error"
    \/ response.body = JsonNull

Truthy(v) == v \notin {Undefined, JsonNull}

\* a searchMatches without its catch block
searchMatches_NoCatch(queryText, response) ==
    IF Throws(response) THEN Rejected
    ELSE IF Truthy(response.body.matches) THEN Resolved(response.body.matches.items)
    ELSE Resolved(<<>>)

searchMatches(queryText, response) ==
    IF Throws(response) THEN Resolved(getMockMatches(queryText))
    ELSE IF Truthy(response.body.matches) THEN Resolved(response.body.matches.items)
    ELSE Resolved(<<>>)

NotCalled == [promise |-> "not called"]

\* queries sent to the service
ServiceQueries ==
    {<<>>, <<"test">>, <<"Ashes", " ", "2023">>, <<"india", " ", "AUSTRALIA">>,
     <<"ipl", " ", "final">>}

ServiceInit ==
    /\ svcQuery \in ServiceQueries
    /\ svcResponse \in Responses
    /\ svcResult = NotCalled
    /\ mockResult = NotCalled

\* getMockMatches on its own, over every text
MockInit ==
    /\ svcQuery \in Texts
    /\ svcResponse = [fetch |-> "rejected"]
    /\ svcResult = NotCalled
    /\ mockResult = NotCalled

ServiceIdle ==
    /\ svcQuery = <<>>
    /\ svcResponse = [fetch |-> "rejected"]
    /\ svcResult = NotCalled
    /\ mockResult = NotCalled

SearchMatches ==
    /\ svcResult = NotCalled
    /\ svcResult' = searchMatches(svcQuery, svcResponse)
    /\ UNCHANGED <<svcQuery, svcResponse, mockResult>>

GetMockMatches ==
    /\ mockResult = NotCalled
    /\ mockResult' = Resolved(getMockMatches(svcQuery))
    /\ UNCHANGED <<svcQuery, svcResponse, svcResult>>

(* ------------------------------------------------------------------ *)
(* CricketChatbot: the message log, the input field and the search      *)
(* ------------------------------------------------------------------ *)
\* pending: the searchMatches calls not yet settled, each with its query and
\* the time it was sent (a round trip takes a millisecond at least);
\* wall: Date.now(); lastEvent: the handler that ran last, and its argument
VARIABLES messages, inputText, isLoading, pending, wall, lastEvent

chatVars == <<messages, inputText, isLoading, pending, wall, lastEvent>>

\* accepted sends of a run, and milliseconds that pass during it
MaxSends == 2
MaxTicks == 3

\* Date.now() when the component mounts
Epoch == 1000

\* texts the user types, and the chips offered before the first send
TypedTexts == {<<>>, <<" ">>, <<"Ashes", " ", "2023">>}

suggestedQueries == {<<"ipl", " ", "2023", " ", "final">>}

WelcomeText == <<"Welcome to Cricket Match Finder!">>
NoMatchesText == <<"No matches found for your query.">>
ErrorText == <<"Sorry, there was an error processing your request.">>

FoundText(n, text) ==
    <<"Found", ToString(n), IF n > 1 THEN "matches" ELSE "match", "for">> \o text

Message(id, text, isBot, matches) ==
    [id |-> id, text |-> text, isBot |-> isBot, matches |-> matches]

WelcomeMessage == Message("1", WelcomeText, TRUE, Undefined)

\* a text field that is never disabled
TextFieldDisabled_Never == FALSE

\* what the last render shows

TextFieldDisabled == isLoading

SendButtonDisabled == trim(inputText) = <<>> \/ isLoading

SuggestionsShown == Len(messages) = 1

AcceptedSends == Cardinality({i \in 1..Len(messages) : ~messages[i].isBot})

NoResponse == [fetch |-> "none"]

Event(name, text, response) == [event |-> name, text |-> text, response |-> response]

ChatInit ==
    /\ messages = <<WelcomeMessage>>
    /\ inputText = <<>>
    /\ isLoading = FALSE
    /\ pending = <<>>
    /\ wall = Epoch
    /\ lastEvent = Event("mount", <<>>, NoResponse)

\* onChange of the text field
TypeText(text) ==
    /\ ~TextFieldDisabled
    /\ inputText' = text
    /\ lastEvent' = Event("change", text, NoResponse)
    /\ UNCHANGED <<messages, isLoading, pending, wall>>

handleSuggestionClick(text) ==
    /\ SuggestionsShown
    /\ inputText' = text
    /\ lastEvent' = Event("suggestion", text, NoResponse)
    /\ UNCHANGED <<messages, isLoading, pending, wall>>

\* a handler that turns away the empty string only
handleSendMessage_NoTrim ==
    IF inputText = <<>>
    THEN UNCHANGED <<messages, inputText, isLoading, pending>>
    ELSE /\ messages' = Append(messages, Message(ToString(wall), inputText, FALSE, Undefined))
         /\ inputText' = <<>>
         /\ isLoading' = TRUE
         /\ pending' = Append(pending, [text |-> inputText, sentAt |-> wall])

\* handleSendMessage up to its await
handleSendMessage ==
    IF trim(inputText) = <<>>
    THEN UNCHANGED <<messages, inputText, isLoading, pending>>
    ELSE /\ messages' = Append(messages, Message(ToString(wall), inputText, FALSE, Undefined))
         /\ inputText' = <<>>
         /\ isLoading' = TRUE
         /\ pending' = Append(pending, [text |-> inputText, sentAt |-> wall])

\* Enter without Shift in the text field
handleKeyPress ==
    /\ ~TextFieldDisabled
    /\ AcceptedSends < MaxSends
    /\ handleSendMessage
    /\ lastEvent' = Event("enter", inputText, NoResponse)
    /\ UNCHANGED wall

\* onClick of the send button
ClickSend ==
    /\ ~SendButtonDisabled
    /\ AcceptedSends < MaxSends
    /\ handleSendMessage
    /\ lastEvent' = Event("click", inputText, NoResponse)
    /\ UNCHANGED wall

RemoveAt(seq, i) == SubSeq(seq, 1, i - 1) \o SubSeq(seq, i + 1, Len(seq))

\* a reply that attaches the result even when it is empty
BotMessage_AttachEmpty(result, text) ==
    IF result.promise = "rejected"
    THEN Message(ToString(wall + 1), ErrorText, TRUE, Undefined)
    ELSE IF Len(result.value) = 0
         THEN Message(ToString(wall + 1), NoMatchesText, TRUE, JsonArray(result.value))
         ELSE Message(ToString(wall + 1), FoundText(Len(result.value), text), TRUE,
                      JsonArray(result.value))

\* the reply built from what searchMatches settled with
BotMessage(result, text) ==
    IF result.promise = "rejected"
    THEN Message(ToString(wall + 1), ErrorText, TRUE, Undefined)
    ELSE IF Len(result.value) = 0
         THEN Message(ToString(wall + 1), NoMatchesText, TRUE, Undefined)
         ELSE Message(ToString(wall + 1), FoundText(Len(result.value), text), TRUE,
                      JsonArray(result.value))

\* a continuation that leaves the loading flag as it is
SearchSettles_KeepLoading(i, response) ==
    /\ i \in 1..Len(pending)
    /\ wall > pending[i].sentAt
    /\ messages' = Append(messages, BotMessage(searchMatches(pending[i].text, response),
                                                pending[i].text))
    /\ pending' = RemoveAt(pending, i)
    /\ lastEvent' = Event("settle", pending[i].text, response)
    /\ UNCHANGED <<inputText, isLoading, wall>>

\* handleSendMessage after its await: the reply is appended, finally
\* setIsLoading(false)
SearchSettles(i, response) ==
    /\ i \in 1..Len(pending)
    /\ wall > pending[i].sentAt
    /\ messages' = Append(messages, BotMessage(searchMatches(pending[i].text, response),
                                                pending[i].text))
    /\ isLoading' = FALSE
    /\ pending' = RemoveAt(pending, i)
    /\ lastEvent' = Event("settle", pending[i].text, response)
    /\ UNCHANGED <<inputText, wall>>

\* a millisecond passes
ClockTick ==
    /\ wall < Epoch + MaxTicks
    /\ wall' = wall + 1
    /\ lastEvent' = Event("tick", <<>>, NoResponse)
    /\ UNCHANGED <<messages, inputText, isLoading, pending>>

vars == <<cacheVars, backendVars, routerVars, orchVars, registryVars, serviceVars, chatVars>>

\* what the steps of one component leave alone
cacheFrame ==
    <<backendVars, routerVars, orchVars, registryVars, serviceVars, chatVars>>
cacheBackendFrame ==
    <<routerVars, orchVars, registryVars, serviceVars, chatVars>>
routerFrame ==
    <<cacheVars, backendVars, orchVars, registryVars, serviceVars, chatVars>>
orchFrame ==
    <<cacheVars, backendVars, routerVars, registryVars, serviceVars, chatVars>>
registryFrame ==
    <<cacheVars, backendVars, routerVars, orchVars, serviceVars, chatVars>>
serviceFrame ==
    <<cacheVars, backendVars, routerVars, orchVars, registryVars, chatVars>>
chatFrame ==
    <<cacheVars, backendVars, routerVars, orchVars, registryVars, serviceVars>>

CacheNext ==
    \/ \E c \in Callers, k \in Keys : GetOrFetchCall(c, k) /\ UNCHANGED cacheFrame
    \/ \E c \in Callers : FetchSucceed(c) /\ UNCHANGED cacheFrame
    \/ \E c \in Callers : FetchFail(c) /\ UNCHANGED cacheFrame
    \/ Tick /\ UNCHANGED cacheFrame

\* the cache over a backend that may fail
CacheBackendNext ==
    \/ \E c \in Callers, k \in Keys :
           /\ GetOrFetchCall(c, k)
           /\ backendFailed' = backendFailed \ {c}
           /\ UNCHANGED cacheBackendFrame
    \/ \E c \in Callers, k \in Keys : RedisGetRaises(c, k) /\ UNCHANGED cacheBackendFrame
    \/ \E c \in Callers : FetchSucceed(c) /\ UNCHANGED cacheFrame
    \/ \E c \in Callers : RedisSetexRaises(c) /\ UNCHANGED cacheBackendFrame
    \/ \E c \in Callers : FetchFail(c) /\ UNCHANGED cacheFrame
    \/ Tick /\ UNCHANGED cacheFrame

RouterNext ==
    \/ ChatbotRoute /\ UNCHANGED routerFrame
    \/ EnhancedRoute /\ UNCHANGED routerFrame

OrchNext ==
    \/ Execute /\ UNCHANGED orchFrame
    \/ \E t \in OrchTools : AttemptReturns(t) /\ UNCHANGED orchFrame
    \/ \E t \in OrchTools : ToolTimesOut(t) /\ UNCHANGED orchFrame
    \/ CeilingFires /\ UNCHANGED orchFrame
    \/ TimePasses /\ UNCHANGED orchFrame
    \/ GatherReturns /\ UNCHANGED orchFrame
    \/ FuseResults /\ UNCHANGED orchFrame

FuseNext == FuseResults /\ UNCHANGED orchFrame

RegistryNext ==
    \/ \E d \in ToolDescriptors : Register(d) /\ UNCHANGED registryFrame
    \/ \E n \in OrchTools : Resolve(n) /\ UNCHANGED registryFrame

ServiceNext ==
    \/ SearchMatches /\ UNCHANGED serviceFrame
    \/ GetMockMatches /\ UNCHANGED serviceFrame

MockNext == GetMockMatches /\ UNCHANGED serviceFrame

ChatNext ==
    \/ \E text \in TypedTexts : TypeText(text) /\ UNCHANGED chatFrame
    \/ \E text \in suggestedQueries : handleSuggestionClick(text) /\ UNCHANGED chatFrame
    \/ handleKeyPress /\ UNCHANGED chatFrame
    \/ ClickSend /\ UNCHANGED chatFrame
    \/ \E i \in 1..MaxSends, response \in Responses :
           SearchSettles(i, response) /\ UNCHANGED chatFrame
    \/ ClockTick /\ UNCHANGED chatFrame

InitCache ==
    /\ CacheInit
    /\ BackendInit
    /\ RouterIdle
    /\ OrchIdle
    /\ RegistryInit
    /\ ServiceIdle
    /\ ChatInit

InitCacheBackend ==
    /\ CacheInit
    /\ BackendInit
    /\ RouterIdle
    /\ OrchIdle
    /\ RegistryInit
    /\ ServiceIdle
    /\ ChatInit

InitRouter ==
    /\ CacheInit
    /\ BackendInit
    /\ RouterInit
    /\ OrchIdle
    /\ RegistryInit
    /\ ServiceIdle
    /\ ChatInit

InitOrch ==
    /\ CacheInit
    /\ BackendInit
    /\ RouterIdle
    /\ OrchInit
    /\ RegistryInit
    /\ ServiceIdle
    /\ ChatInit

InitFuse ==
    /\ CacheInit
    /\ BackendInit
    /\ RouterIdle
    /\ FuseInit
    /\ RegistryInit
    /\ ServiceIdle
    /\ ChatInit

InitRegistry ==
    /\ CacheInit
    /\ BackendInit
    /\ RouterIdle
    /\ OrchIdle
    /\ RegistryInit
    /\ ServiceIdle
    /\ ChatInit

InitService ==
    /\ CacheInit
    /\ BackendInit
    /\ RouterIdle
    /\ OrchIdle
    /\ RegistryInit
    /\ ServiceInit
    /\ ChatInit

InitMock ==
    /\ CacheInit
    /\ BackendInit
    /\ RouterIdle
    /\ OrchIdle
    /\ RegistryInit
    /\ MockInit
    /\ ChatInit

InitChat ==
    /\ CacheInit
    /\ BackendInit
    /\ RouterIdle
    /\ OrchIdle
    /\ RegistryInit
    /\ ServiceIdle
    /\ ChatInit

SpecCache == InitCache /\ [][CacheNext]_vars

SpecCacheBackend == InitCacheBackend /\ [][CacheBackendNext]_vars

SpecRouter == InitRouter /\ [][RouterNext]_vars

SpecOrch == InitOrch /\ [][OrchNext]_vars

SpecOrchFair == InitOrch /\ [][OrchNext]_vars /\ WF_vars(OrchNext)

SpecFuse == InitFuse /\ [][FuseNext]_vars

SpecRegistry == InitRegistry /\ [][RegistryNext]_vars

SpecService == InitService /\ [][ServiceNext]_vars

SpecMock == InitMock /\ [][MockNext]_vars

SpecChat == InitChat /\ [][ChatNext]_vars

(* ------------------------------------------------------------------ *)
(* Properties of the cache layer                                        *)
(* ------------------------------------------------------------------ *)
InFlight(k) == {c \in Callers : callers[c].pc = "fetching" /\ callers[c].key = k}

ClassTtl(k) == get_cache_ttl(KeyDataType(k))

\* C1: at most one execution of the underlying fetch is in flight per key at
\* any time; a caller arriving during a fetch waits for it instead of
\* starting its own.
C1_SingleFlightPerKey == \A k \in Keys : Cardinality(InFlight(k)) <= 1

\* C7: for a fresh key, the calls made before the entry's TTL expires (and
\* with no failed fetch) cause exactly one execution of the fetch in total,
\* and every caller that has returned holds that fetch's value.
C7_OneFetchWithinTtl ==
    \A k \in Keys :
        (failures[k] = 0 /\ (firstExpire[k] = 0 \/ now < firstExpire[k]))
            => /\ fetches[k] <= 1
               /\ \A c \in Callers :
                      (callers[c].pc = "done" /\ callers[c].key = k)
                          => callers[c].result = Payload(k, 1)

\* C8: a call for a key whose entry is older than the TTL of its class starts
\* a new execution of the fetch, and when that fetch succeeds the caller gets
\* the value of that fetch, not the expired one.
C8_ExpiredEntryRefetched ==
    \A c \in Callers :
        (callers[c].pc # "idle" /\ callers[c].seen # None
           /\ callers[c].age >= ClassTtl(callers[c].key))
            => /\ callers[c].kind # "hit"
               /\ callers[c].fetch > 0
               /\ callers[c].kind = "fetched"
                      => /\ callers[c].result = Payload(callers[c].key, callers[c].fetch)
                         /\ callers[c].result # json_loads(callers[c].seen.data)

C8_Witness ==
    \E c \in Callers :
        /\ callers[c].kind = "fetched"
        /\ callers[c].seen # None
        /\ callers[c].age >= ClassTtl(callers[c].key)

\* C9: when the refresh fetch for an expired entry fails while the entry is
\* still inside the grace window (2 x TTL), get_or_fetch returns the old value
\* marked stale instead of raising; values from a successful fetch or an
\* unexpired entry are never marked stale.
C9_StaleServedInGrace ==
    /\ \A c \in Callers : ~(callers[c].kind = "raised" /\ callers[c].inGrace)
    /\ \A c \in Callers :
           callers[c].kind = "stale"
               => (callers[c].seen # None /\ callers[c].age >= ClassTtl(callers[c].key))

\* C10: no call returns a cached value older than the hard limit, twice the
\* TTL of the entry's class; past that limit a failed fetch raises.
C10_NeverPastHardLimit ==
    \A c \in Callers :
        /\ callers[c].kind \in {"hit", "stale"}
               => callers[c].age <= 2 * ClassTtl(callers[c].key)
        /\ (callers[c].pc \in {"done", "raised"} /\ callers[c].seen # None
              /\ callers[c].fetch > 0 /\ callers[c].kind # "fetched"
              /\ callers[c].age > 2 * ClassTtl(callers[c].key))
               => (callers[c].kind = "raised" /\ callers[c].result = None)

C10_Witness ==
    /\ \E c \in Callers :
           /\ callers[c].kind = "raised"
           /\ callers[c].seen # None
           /\ callers[c].age > 2 * ClassTtl(callers[c].key)
    /\ \E c \in Callers : callers[c].kind = "hit"

\* C23: a call of get_or_fetch that meets a failing cache backend still
\* calls fetch_func and, unless fetch_func itself fails, returns its payload:
\* the call never ends in the backend's error
C23_BackendErrorBypassed ==
    \A c \in backendFailed :
        /\ callers[c].fetch >= 1
        /\ callers[c].kind # "backend_error"
        /\ callers[c].kind = "fetched"
               => callers[c].result = Payload(callers[c].key, callers[c].fetch)

(* ------------------------------------------------------------------ *)
(* Properties of the routers                                            *)
(* ------------------------------------------------------------------ *)
\* route_query returned a tool list
Routed(r) == r \notin {NotRouted, ClassificationError}

Has(r, t) == \E i \in 1..Len(r) : r[i] = t

NoRuleMatches(q) ==
    /\ ~requires_ball_level_data(q)
    /\ ~is_comparison_query(q)
    /\ ~requires_sentiment_analysis(q)
    /\ ~requires_visualization(q)
    /\ ~requires_live_data(q)
    /\ ~requires_historical_context(q)

\* C2: for every classification the routed tool list has at least one tool,
\* and when no rule of the decision matrix matches it is exactly the
\* historical tool.
C2_RouteNeverEmpty ==
    /\ Routed(chatbotRoute) => Len(chatbotRoute) >= 1
    /\ Routed(enhancedRoute)
           => /\ Len(enhancedRoute) >= 1
              /\ NoRuleMatches(query) => enhancedRoute = <<"historical_stats_tool">>

\* the classification the pipeline falls back to
DefaultClassification(q) == [q EXCEPT !.intent = "historical", !.complexity = 1]

\* C15: when classification fails with ClassificationError, routing still
\* runs, on the default classification (intent = historical, complexity = 1)
C15_DefaultClassificationOnError ==
    nlu = "down" =>
        /\ chatbotRoute # NotRouted
               => chatbotRoute = CricketChatbotRouter_route_query(DefaultClassification(query))
        /\ enhancedRoute # NotRouted
               => enhancedRoute = EnhancedCricketRouter_route_query(DefaultClassification(query))

LiveScores(q) == q.temporal = "live" /\ q.intent = "scores"

\* C16: for a classification with temporal = live and intent = scores, of any
\* complexity, the routed tool list includes the realtime score tool
C16_LiveScoresIncludeScoreTool ==
    LiveScores(query) =>
        /\ Routed(chatbotRoute) => Has(chatbotRoute, "live_score_tool")
        /\ Routed(enhancedRoute) => Has(enhancedRoute, "live_score_tool")

\* both routers have routed a live scores query of the highest complexity
C16_Witness ==
    /\ LiveScores(query) /\ query.complexity = 3
    /\ Routed(chatbotRoute) /\ Routed(enhancedRoute)

\* C17: a query classified temporal = live, intent = scores is routed to the
\* realtime score tool only, and when that tool alone runs and succeeds the
\* fused context has exactly one fragment and is not degraded
C17_LiveScoresScoreToolOnly ==
    /\ LiveScores(query) =>
           /\ Routed(chatbotRoute) => chatbotRoute = <<"live_score_tool">>
           /\ Routed(enhancedRoute) => enhancedRoute = <<"live_score_tool">>
    /\ (/\ selected = <<"live_score_tool">>
        /\ orchPc = "fused"
        /\ task["live_score_tool"].outcome = "success")
           => /\ fused # FusionError
              /\ Len(fused.fragments) = 1
              /\ ~fused.degraded

\* C18: for a classification with intent = comparison the routed tool list
\* holds the comparison tool and, after it, the historical tool; the fused
\* fragments of the comparison tool come before those of the historical tool
C18_ComparisonThenHistorical ==
    /\ (query.intent = "comparison" /\ Routed(enhancedRoute)) =>
           \E i, j \in 1..Len(enhancedRoute) :
               /\ i < j
               /\ enhancedRoute[i] = "player_comparison_tool"
               /\ enhancedRoute[j] = "historical_stats_tool"
    /\ (selected = <<"player_comparison_tool", "historical_stats_tool">>
           /\ orchPc = "fused" /\ fused # FusionError) =>
           \A i, j \in 1..Len(fused.fragments) :
               (/\ fused.fragments[i].tool = "player_comparison_tool"
                /\ fused.fragments[j].tool = "historical_stats_tool") => i < j

\* C19: a routed tool list that holds the visualization tool holds another,
\* data-producing, tool as well
C19_VisualizationNeverAlone ==
    (Routed(enhancedRoute) /\ Has(enhancedRoute, "visualization_tool")) =>
        \E i \in 1..Len(enhancedRoute) : enhancedRoute[i] # "visualization_tool"

\* C20: for a classification with intent = sentiment the routed tool list
\* holds the sentiment tool, and holds the realtime score tool only when the
\* complexity is 2 or more
C20_SentimentWithoutScores ==
    (query.intent = "sentiment" /\ Routed(enhancedRoute)) =>
        /\ Has(enhancedRoute, "social_sentiment_tool")
        /\ Has(enhancedRoute, "live_score_tool") => query.complexity >= 2

NoDuplicates(r) == \A i, j \in 1..Len(r) : i # j => r[i] # r[j]

\* C21: a routed tool list holds no tool name twice, also when complexity = 3
\* or intent = hybrid sends the query to the multi-tool route
C21_RouteHasNoDuplicates ==
    /\ Routed(chatbotRoute) => NoDuplicates(chatbotRoute)
    /\ Routed(enhancedRoute) => NoDuplicates(enhancedRoute)

\* a multi-source query whose routes hold three tools, the historical tool
\* among them
C21_Witness ==
    /\ requires_multiple_sources(query)
    /\ Routed(chatbotRoute) /\ Len(chatbotRoute) >= 3
    /\ Has(chatbotRoute, "historical_stats_tool")
    /\ Routed(enhancedRoute) /\ Len(enhancedRoute) >= 3
    /\ Has(enhancedRoute, "historical_stats_tool")

(* ------------------------------------------------------------------ *)
(* Properties of the orchestrator and of fusion                         *)
(* ------------------------------------------------------------------ *)
\* what the call of t does when it runs alone: the outcome of its first
\* attempt, and of its retry after a transient failure, under its own
\* timeout and the ceiling
AttemptOutcome(res) ==
    CASE res = "ok" -> "success"
      [] res = "cached" -> "cache_hit"
      [] res = "validation" -> "failure"
      [] OTHER -> "timeout"

OwnOutcome(t) ==
    LET f == fate[t]
        limit == ToolTimeoutOf(t)
    IN IF f[1].dur >= limit \/ f[1].dur >= CeilingTimeout THEN "timeout"
       ELSE IF f[1].res # "transient" THEN AttemptOutcome(f[1].res)
       ELSE IF f[2].dur >= limit \/ f[1].dur + f[2].dur >= CeilingTimeout THEN "timeout"
       ELSE IF f[2].res \in {"ok", "cached"} THEN AttemptOutcome(f[2].res)
       ELSE "timeout"

\* the time at which the call of t ends when it runs alone
OwnEnd(t) ==
    LET f == fate[t]
        limit == ToolTimeoutOf(t)
        first == IF f[1].dur >= limit THEN limit ELSE f[1].dur
        second == IF f[1].dur >= limit \/ f[1].res # "transient" THEN 0
                  ELSE IF f[2].dur >= limit THEN limit ELSE f[2].dur
    IN IF first + second >= CeilingTimeout THEN CeilingTimeout ELSE first + second

SelectedTools == Range(selected)

\* C3: the failure or timeout of one selected tool never cancels or blocks
\* another: every tool reaches the outcome its own call determines, and once
\* gather has returned every selected tool has that outcome.
C3_SiblingsIsolated ==
    /\ \A t \in SelectedTools :
           task[t].status = "done" => task[t].outcome = OwnOutcome(t)
    /\ orchPc \in {"returned", "fused"}
           => \A t \in SelectedTools : task[t].status = "done"

C3_Witness ==
    /\ orchPc = "returned"
    /\ \E a, b \in SelectedTools :
           /\ task[a].outcome \in {"failure", "timeout"}
           /\ task[b].outcome = "success"
           /\ OwnEnd(a) < OwnEnd(b)

\* C4: the fused context is non-empty whenever at least one execution
\* succeeded; when none did, fuse gives FusionError and no partial context.
C4_FuseNonEmptyOrError ==
    orchPc = "fused" =>
        IF \E t \in SelectedTools : Usable(task[t].outcome)
        THEN fused # FusionError /\ Len(fused.fragments) >= 1
        ELSE fused = FusionError

C4_Witness ==
    /\ orchPc = "fused"
    /\ \E a, b \in SelectedTools :
           task[a].outcome = "failure" /\ task[b].outcome = "success"
    /\ fused # FusionError

\* C5: when tool A timed out and tool B succeeded, the fused context is
\* non-empty, holds only fragments of tools that succeeded (none of A), and is
\* marked degraded.
C5_TimeoutExcludedDegraded ==
    orchPc = "fused" =>
        \A a, b \in SelectedTools :
            (task[a].outcome = "timeout" /\ task[b].outcome = "success")
                => /\ fused # FusionError
                   /\ Len(fused.fragments) >= 1
                   /\ \A i \in 1..Len(fused.fragments) :
                          /\ fused.fragments[i].tool # a
                          /\ fused.fragments[i].tool \in SelectedTools
                          /\ Usable(task[fused.fragments[i].tool].outcome)
                          /\ SelectedTools = {a, b} => fused.fragments[i].tool = b
                   /\ fused.degraded = TRUE

C5_Witness ==
    /\ orchPc = "fused"
    /\ \E a, b \in SelectedTools :
           task[a].outcome = "timeout" /\ task[b].outcome = "success"
    /\ fused # FusionError
    /\ fused.degraded

\* the time at which a run ends: when the last tool ends by itself, at the
\* ceiling at the latest
EndOfRun == Min({CeilingTimeout} \cup
                {x \in 0..CeilingTimeout : \A t \in SelectedTools : OwnEnd(t) <= x})

ReturnedInTime ==
    orchPc \in {"returned", "fused"} =>
        /\ clock = EndOfRun
        /\ \A t \in SelectedTools :
               /\ task[t].status = "done"
               /\ OwnEnd(t) >= CeilingTimeout => task[t].outcome = "timeout"

PendingAtCeilingExcluded ==
    orchPc = "fused" =>
        /\ (\E t \in SelectedTools : Usable(task[t].outcome)) => fused # FusionError
        /\ fused # FusionError =>
               \A i \in 1..Len(fused.fragments) :
                   OwnEnd(fused.fragments[i].tool) < CeilingTimeout

RetryFailed(t) ==
    /\ task[t].status = "done"
    /\ task[t].attempt = 2
    /\ fate[t][2].res \in {"transient", "validation"}
    /\ fate[t][2].dur < ToolTimeoutOf(t)
    /\ fate[t][1].dur + fate[t][2].dur < CeilingTimeout

\* C11: within one run each selected tool's fetch is attempted at most twice;
\* a second attempt happens only after the first ended in a transient failure,
\* a validation error is never retried, and a tool whose retry also fails is
\* treated as a timeout and has no fragment in the fused context.
C11_AtMostOneRetry ==
    \A t \in SelectedTools :
        /\ task[t].attempt \in {1, 2}
        /\ task[t].attempt = 2
               => (fate[t][1].res = "transient" /\ fate[t][1].dur < ToolTimeoutOf(t))
        /\ fate[t][1].res = "validation" => task[t].attempt = 1
        /\ RetryFailed(t)
               => /\ task[t].outcome = "timeout"
                  /\ (orchPc = "fused" /\ fused # FusionError)
                         => \A i \in 1..Len(fused.fragments) : fused.fragments[i].tool # t

C11_Witness ==
    /\ orchPc = "fused"
    /\ fused # FusionError
    /\ \E t \in SelectedTools : RetryFailed(t) /\ task[t].outcome = "timeout"
    /\ \E t \in SelectedTools : task[t].outcome = "success"

\* the fragments of the executions that fusion may use
Candidates ==
    UNION {Range(payloads[t]) : t \in {u \in SelectedTools : Usable(task[u].outcome)}}

FusedOk == orchPc = "fused" /\ fused # FusionError

\* C12: the fused result holds at most one fragment for a key: of the usable
\* fragments of a key the one of highest confidence, and among those of equal
\* confidence the most recent one
C12_OneBestFragmentPerKey ==
    FusedOk =>
        LET out == fused.fragments
        IN /\ \A i, j \in 1..Len(out) : i # j => out[i].key # out[j].key
           /\ \A i \in 1..Len(out) : out[i] \in Candidates
           /\ \A g \in Candidates : \E i \in 1..Len(out) :
                  /\ out[i].key = g.key
                  /\ out[i].confidence >= g.confidence
                  /\ out[i].confidence = g.confidence => out[i].freshness >= g.freshness

\* one key decided by confidence against freshness, another by freshness
C12_Witness ==
    /\ FusedOk
    /\ \E g, h \in Candidates :
           /\ g.key = h.key /\ g.confidence > h.confidence /\ g.freshness < h.freshness
           /\ \E i \in 1..Len(fused.fragments) : fused.fragments[i] = g
    /\ \E g, h \in Candidates :
           /\ g.key = h.key /\ g.confidence = h.confidence /\ g.freshness > h.freshness
           /\ \E i \in 1..Len(fused.fragments) : fused.fragments[i] = g

\* the executions of the tool list, from the fates alone
ExpectedExecutions ==
    [i \in 1..Len(selected) |-> [tool |-> selected[i], outcome |-> OwnOutcome(selected[i])]]

\* C13: the fused fragments follow the order of the tool list, and the fused
\* result is the one the tool list and the tools' results determine, whatever
\* the order the tools completed in
C13_FusionFollowsToolOrder ==
    FusedOk =>
        LET out == fused.fragments
        IN /\ \A i, j \in 1..Len(out) : i < j => Pos(out[i].tool) <= Pos(out[j].tool)
           /\ fused = fuse(ExpectedExecutions)

\* the tool of lower priority completed first, and both have fused fragments
C13_Witness ==
    /\ FusedOk
    /\ \E a, b \in SelectedTools :
           /\ Pos(a) < Pos(b) /\ task[b].rank < task[a].rank
           /\ \E i, j \in 1..Len(fused.fragments) :
                  fused.fragments[i].tool = a /\ fused.fragments[j].tool = b

\* C14: the fused result is degraded exactly when a selected tool failed or
\* timed out
C14_DegradedIffToolLost ==
    FusedOk =>
        (fused.degraded <=>
            \E t \in SelectedTools : task[t].outcome \in {"failure", "timeout"})

\* a tool timed out, none failed, and fusion ran on the rest
C14_Witness ==
    /\ FusedOk /\ fused.degraded
    /\ \E t \in SelectedTools : task[t].outcome = "timeout"
    /\ \A t \in SelectedTools : task[t].outcome # "failure"

(* ------------------------------------------------------------------ *)
(* Properties of the tool registry                                      *)
(* ------------------------------------------------------------------ *)
\* indices of the register calls of name n among the first k calls
RegisterCalls(n, k) ==
    {i \in 1..k : calls[i].op = "register" /\ calls[i].name = n}

Max(S) == CHOOSE x \in S : \A y \in S : y <= x

\* what resolve(n) has to return after the first k calls
LatestRegistered(n, k) ==
    IF RegisterCalls(n, k) = {} THEN NotFound
    ELSE calls[Max(RegisterCalls(n, k))].descriptor

\* C22: the registry holds at most one descriptor per name; registering the
\* same descriptor twice in a row leaves the registry as after the first call;
\* resolve returns the descriptor registered last under the name, and
\* NotFound for a name never registered
C22_RegisterIdempotentByName ==
    /\ \A d, e \in registry : d.name = e.name => d = e
    /\ (/\ Len(calls) >= 2
        /\ calls[Len(calls)].op = "register"
        /\ calls[Len(calls) - 1] = calls[Len(calls)]) => registry = registryBefore
    /\ \A n \in OrchTools : resolve(registry, n) = LatestRegistered(n, Len(calls))
    /\ \A i \in 1..Len(calls) :
           calls[i].op = "resolve" => calls[i].descriptor = LatestRegistered(calls[i].name, i - 1)

\* a descriptor registered twice, its name registered again with another
\* descriptor, and resolve returning the latter; another name is not found
C22_Witness ==
    /\ Len(calls) = 4
    /\ calls[1].op = "register" /\ calls[2] = calls[1]
    /\ calls[3].op = "register" /\ calls[3].name = calls[1].name
    /\ calls[3].descriptor # calls[1].descriptor
    /\ calls[4].op = "resolve" /\ calls[4].name = calls[1].name
    /\ calls[4].descriptor = calls[3].descriptor
    /\ \E n \in OrchTools : resolve(registry, n) = NotFound

(* ------------------------------------------------------------------ *)
(* Properties of MatchQueryService                                      *)
(* ------------------------------------------------------------------ *)
\* the POST failed at the network level, came back with a status that is not
\* ok, or its body is not JSON
RequestFailed(response) ==
    \/ response.fetch = "rejected"
    \/ ~response.ok
    \/ response.body.js = "syntax error"

\* the body has an array under matches
HasMatches(body) == body.js = "object" /\ body.matches.js = "array"

Spellings(keyword) ==
    CASE keyword = "ashes" -> {"ashes", "Ashes"}
      [] keyword = "australia" -> {"australia", "AUSTRALIA"}
      [] OTHER -> {keyword}

Mentions(text, keyword) == \E i \in 1..Len(text) : text[i] \in Spellings(keyword)

\* C30: getMockMatches answers by the first pair of keywords the query holds,
\* in any letter case: ashes and 2023 give the three Ashes matches; else
\* india and australia the Border-Gavaskar match; else ipl and final the IPL
\* final; else the empty array
C30_MockMatchesFirstPairWins ==
    mockResult # NotCalled =>
        mockResult.value =
            IF Mentions(svcQuery, "ashes") /\ Mentions(svcQuery, "2023")
            THEN mockMatches
            ELSE IF Mentions(svcQuery, "india") /\ Mentions(svcQuery, "australia")
                 THEN BorderGavaskarMatch
            ELSE IF Mentions(svcQuery, "ipl") /\ Mentions(svcQuery, "final")
                 THEN IplFinalMatch
            ELSE <<>>

\* a query in mixed case that holds two pairs got the matches of the first
C30_Witness ==
    /\ mockResult = Resolved(mockMatches)
    /\ includes(svcQuery, "Ashes") /\ ~includes(svcQuery, "ashes")
    /\ Mentions(svcQuery, "india") /\ includes(svcQuery, "AUSTRALIA")

(* ------------------------------------------------------------------ *)
(* Properties of CricketChatbot                                         *)
(* ------------------------------------------------------------------ *)
\* C25: at most one searchMatches call is outstanding; while one is, isLoading
\* is true, the text field and the send button are disabled and the
\* suggestion chips are not shown
C25_OneSearchOutstanding ==
    /\ Len(pending) <= 1
    /\ pending # <<>> =>
           /\ isLoading
           /\ TextFieldDisabled
           /\ SendButtonDisabled
           /\ ~SuggestionsShown

\* the second search of a run is outstanding, with text left in no field
C25_Witness ==
    /\ Len(pending) = 1
    /\ AcceptedSends = 2
    /\ isLoading

IsPrefix(a, b) == Len(a) <= Len(b) /\ SubSeq(b, 1, Len(a)) = a

\* after the welcome message the log alternates user, bot; a user message
\* waits for its reply exactly while isLoading
Alternates ==
    /\ messages[1] = WelcomeMessage
    /\ \A i \in 2..Len(messages) : messages[i].isBot <=> (i % 2 = 1)
    /\ isLoading <=> (Len(messages) % 2 = 0)

\* C26: an accepted send appends one user message, the settled search one bot
\* message after it, and isLoading is false again after the reply; the log
\* alternates user, bot after the welcome message and only ever grows at its
\* end, one message at a time
C26_LogAlternatesAndGrows ==
    /\ []Alternates
    /\ [][/\ IsPrefix(messages, messages')
           /\ Len(messages') <= Len(messages) + 1
           /\ lastEvent'.event = "settle"
                  => /\ Len(messages') = Len(messages) + 1
                     /\ messages'[Len(messages')].isBot
                     /\ ~isLoading']_vars

\* two sends were answered
C26_Witness ==
    /\ Len(messages) = 5
    /\ ~isLoading
    /\ lastEvent.event = "settle"

\* C27: no reply is the error text: a reply is the no-matches text with no
\* matches attached, or the found text with the matches, not empty, attached
C27_ErrorReplyNeverAppended ==
    \A i \in 2..Len(messages) :
        messages[i].isBot =>
            /\ messages[i].text # ErrorText
            /\ \/ messages[i].text = NoMatchesText /\ messages[i].matches = Undefined
               \/ /\ messages[i].matches # Undefined
                  /\ Len(messages[i].matches.items) > 0
                  /\ messages[i].text = FoundText(Len(messages[i].matches.items),
                                                   messages[i - 1].text)

\* a search whose request failed was answered with the found text
C27_Witness ==
    /\ lastEvent.event = "settle"
    /\ lastEvent.response = [fetch |-> "rejected"]
    /\ messages[Len(messages)].isBot
    /\ messages[Len(messages)].matches # Undefined

\* C28: the ids of the messages of the log are pairwise distinct
C28_MessageIdsDistinct ==
    \A i, j \in 1..Len(messages) : i # j => messages[i].id # messages[j].id

\* C29: a send with empty or white-space-only input, by the Enter key or the
\* send button, changes neither the log, nor the input, nor isLoading, and
\* starts no search
C29_EmptySendChangesNothing ==
    [][(lastEvent'.event \in {"enter", "click"} /\ trim(inputText) = <<>>)
           => UNCHANGED <<messages, inputText, isLoading, pending>>]_vars

\* Enter was pressed on white space after a first exchange
C29_Witness ==
    /\ lastEvent.event = "enter"
    /\ lastEvent.text = <<" ">>
    /\ inputText = <<" ">>
    /\ Len(messages) = 3
    /\ ~isLoading

====
